---- MODULE Spec2Model ----
(***************************************************************************)
(* Model of resolve_join_using_a_graph.py: create_graph builds an          *)
(* undirected networkx graph of the declared tables and their foreign      *)
(* keys, resolve_join turns a shortest path of that graph into an ordered  *)
(* list of joins.                                                          *)
(***************************************************************************)
EXTENDS Integers, Sequences, FiniteSets, TLC

VARIABLES tables, fks, pc, graph, call

vars == <<tables, fks, pc, graph, call>>

(* ---------------------------------------------------------------- bounds *)

\* most tables a declared schema holds
MaxTables == 3
\* most foreign keys a declared schema holds, over all its tables
MaxFks == 2
\* most add_edge calls that build a graph handed to resolve_join directly
MaxEdges == 3

(* ------------------------------------------------------- the input pools *)

\* table names, in the order str comparison gives them
NamePool == <<"authors", "books", "catalogs", "orphans">>

Names == {NamePool[i] : i \in 1..Len(NamePool)}

\* columns that carry a ForeignKey, and the column a ForeignKey points at
FkColumns == {"author_id", "catalog_id"}

IdColumn == "id"

Range(s) == {s[i] : i \in 1..Len(s)}

Last(s) == s[Len(s)]

(* --------------------------------------------------------- nx.Graph *)

\* nx.Graph(): node and adjacency dicts keep insertion order; the data of an
\* edge is one dict shared by both directions, so it is keyed by {u, v}
EmptyGraph == [node |-> <<>>, adj |-> <<>>, join_on |-> <<>>]

Nodes(G) == Range(G.node)

HasEdge(G, u, v) == {u, v} \in DOMAIN G.join_on

\* G.add_node(n)
add_node(G, n) ==
  IF n \in Nodes(G) THEN G
  ELSE [G EXCEPT !.node = Append(G.node, n),
                 !.adj = [m \in Nodes(G) \cup {n} |->
                            IF m = n THEN <<>> ELSE G.adj[m]]]

\* G.add_edge(u, v, join_on=join_on): missing end points become nodes, an
\* existing edge keeps its place in the adjacency and has its data replaced
add_edge(G, u, v, join_on) ==
  LET G1 == add_node(add_node(G, u), v)
  IN  [G1 EXCEPT
        !.adj = [m \in Nodes(G1) |->
                   IF m = u /\ v \notin Range(G1.adj[u]) THEN Append(G1.adj[u], v)
                   ELSE IF m = v /\ u \notin Range(G1.adj[v]) THEN Append(G1.adj[v], u)
                   ELSE G1.adj[m]],
        !.join_on = [e \in DOMAIN G1.join_on \cup {{u, v}} |->
                       IF e = {u, v} THEN join_on ELSE G1.join_on[e]]]

(* ------------------------------------------------ the declared schema *)

\* a ForeignKey of a table: the constrained column and the column it targets
ForeignKeys == [column : FkColumns, ref_table : Names, ref_column : {IdColumn}]

Rank(n) == CHOOSE i \in 1..Len(NamePool) : NamePool[i] = n

\* the tables another table's foreign keys point at, itself left out
Deps(f, t) == {f[t][i].ref_table : i \in 1..Len(f[t])} \ {t}

RECURSIVE SortLevels(_, _)
\* one level after the other: the tables none of whose referenced tables is
\* still to come, each level in the order of the names
SortLevels(todo, f) ==
  IF todo = <<>> THEN <<>>
  ELSE LET Free(t) == Deps(f, t) \cap Range(todo) = {}
           Held(t) == ~Free(t)
           output == SelectSeq(todo, Free)
       IN  IF output = <<>> THEN todo
           ELSE output \o SortLevels(SelectSeq(todo, Held), f)

\* Base.metadata.sorted_tables: sorted by name, then by dependency
sorted_tables(T, f) ==
  LET byName == [i \in 1..Cardinality(T) |->
                   CHOOSE t \in T : Cardinality({u \in T : Rank(u) < Rank(t)}) = i - 1]
  IN  SortLevels(byName, f)

\* the name of the first table instead of the one the loop left behind
table_name_first(sorted) == Head(sorted)

\* line 117: the name of t, the variable the loop of line 111 left behind
table_name(sorted) == Last(sorted)

(* ------------------------------------------------------- create_graph *)

\* both sides of the tuple under the name of the owning table
JoinOnOwnerTwice(name, table_column, fk_table, fk_column) ==
  <<<<name, table_column>>, <<name, fk_column>>>>

\* line 126: the tuple storing the join relationship
JoinOn(name, table_column, fk_table, fk_column) ==
  <<<<name, table_column>>, <<fk_table, fk_column>>>>

\* the loop over the nodes left out: only add_edge makes nodes
add_nodes_skipped(G, ts) == G

RECURSIVE add_nodes(_, _)
\* lines 111-113: one node per table
add_nodes(G, ts) ==
  IF ts = <<>> THEN G ELSE add_nodes(add_node(G, Head(ts)), Tail(ts))

RECURSIVE add_fk_edges(_, _, _)
\* lines 120-129: one edge per foreign key of a table, under the name `name`
add_fk_edges(G, name, fs) ==
  IF fs = <<>> THEN G
  ELSE LET fk == Head(fs)
           join_on == JoinOn(name, fk.column, fk.ref_table, fk.ref_column)
       IN  add_fk_edges(add_edge(G, name, fk.ref_table, join_on), name, Tail(fs))

RECURSIVE add_table_edges(_, _, _, _)
\* lines 116-129: the loop over the tables
add_table_edges(G, sorted, rest, f) ==
  IF rest = <<>> THEN G
  ELSE add_table_edges(add_fk_edges(G, table_name(sorted), f[Head(rest)]),
                       sorted, Tail(rest), f)

create_graph(T, f) ==
  LET sorted == sorted_tables(T, f)
  IN  add_table_edges(add_nodes(EmptyGraph, sorted), sorted, sorted, f)

(* ------------------------------------------------- nx.shortest_path *)

None == "None"

RECURSIVE ForwardNeighbours(_, _, _, _)
\* for w in Gsucc[v]: a new w joins the forward fringe; a w the reverse
\* search has seen ends the search
ForwardNeighbours(G, v, i, st) ==
  IF i > Len(G.adj[v]) THEN st
  ELSE LET w == G.adj[v][i]
           st1 == IF w \notin DOMAIN st.pred
                  THEN [st EXCEPT !.forward_fringe = Append(@, w),
                                  !.pred = @ @@ (w :> v)]
                  ELSE st
       IN  IF w \in DOMAIN st1.succ
           THEN [st1 EXCEPT !.found = TRUE, !.w = w]
           ELSE ForwardNeighbours(G, v, i + 1, st1)

RECURSIVE ForwardLevel(_, _, _, _)
ForwardLevel(G, this_level, j, st) ==
  IF j > Len(this_level) THEN st
  ELSE LET st1 == ForwardNeighbours(G, this_level[j], 1, st)
       IN  IF st1.found THEN st1 ELSE ForwardLevel(G, this_level, j + 1, st1)

RECURSIVE ReverseNeighbours(_, _, _, _)
ReverseNeighbours(G, v, i, st) ==
  IF i > Len(G.adj[v]) THEN st
  ELSE LET w == G.adj[v][i]
           st1 == IF w \notin DOMAIN st.succ
                  THEN [st EXCEPT !.succ = @ @@ (w :> v),
                                  !.reverse_fringe = Append(@, w)]
                  ELSE st
       IN  IF w \in DOMAIN st1.pred
           THEN [st1 EXCEPT !.found = TRUE, !.w = w]
           ELSE ReverseNeighbours(G, v, i + 1, st1)

RECURSIVE ReverseLevel(_, _, _, _)
ReverseLevel(G, this_level, j, st) ==
  IF j > Len(this_level) THEN st
  ELSE LET st1 == ReverseNeighbours(G, this_level[j], 1, st)
       IN  IF st1.found THEN st1 ELSE ReverseLevel(G, this_level, j + 1, st1)

\* the loop left after the first forward level
SearchOneLevel(G, st) ==
  ForwardLevel(G, st.forward_fringe, 1, [st EXCEPT !.forward_fringe = <<>>])

RECURSIVE SearchLoop(_, _)
\* while forward_fringe and reverse_fringe: expand the smaller fringe
SearchLoop(G, st) ==
  IF st.found \/ st.forward_fringe = <<>> \/ st.reverse_fringe = <<>> THEN st
  ELSE IF Len(st.forward_fringe) <= Len(st.reverse_fringe)
       THEN SearchLoop(G, ForwardLevel(G, st.forward_fringe, 1,
                                       [st EXCEPT !.forward_fringe = <<>>]))
       ELSE SearchLoop(G, ReverseLevel(G, st.reverse_fringe, 1,
                                       [st EXCEPT !.reverse_fringe = <<>>]))

\* the search without the shortcut for target == source
bidirectional_no_shortcut(G, source, target) ==
  SearchLoop(G, [pred |-> (source :> None), succ |-> (target :> None),
                 forward_fringe |-> <<source>>, reverse_fringe |-> <<target>>,
                 found |-> FALSE, w |-> None])

\* _bidirectional_pred_succ: breadth first from both ends, meeting at w
bidirectional_pred_succ(G, source, target) ==
  LET st0 == [pred |-> (source :> None), succ |-> (target :> None),
              forward_fringe |-> <<source>>, reverse_fringe |-> <<target>>,
              found |-> FALSE, w |-> None]
  IN  IF target = source THEN [st0 EXCEPT !.found = TRUE, !.w = source]
      ELSE SearchLoop(G, st0)

RECURSIVE FromSource(_, _)
FromSource(pred, w) ==
  IF w = None THEN <<>> ELSE Append(FromSource(pred, pred[w]), w)

RECURSIVE ToTarget(_, _)
ToTarget(succ, w) ==
  IF w = None THEN <<>> ELSE <<w>> \o ToTarget(succ, succ[w])

\* the node check made only after the shortcut for target == source
shortest_path_late_check(G, source, target) ==
  IF source = target THEN [kind |-> "ok", path |-> <<source>>]
  ELSE IF source \notin Nodes(G) \/ target \notin Nodes(G)
  THEN [kind |-> "NodeNotFound", path |-> <<>>]
  ELSE LET r == SearchLoop(G, [pred |-> (source :> None), succ |-> (target :> None),
                               forward_fringe |-> <<source>>,
                               reverse_fringe |-> <<target>>,
                               found |-> FALSE, w |-> None])
       IN  IF ~r.found THEN [kind |-> "NetworkXNoPath", path |-> <<>>]
           ELSE [kind |-> "ok",
                 path |-> FromSource(r.pred, r.w) \o ToTarget(r.succ, r.succ[r.w])]

\* nx.shortest_path(graph, source, target): NodeNotFound for an end point
\* that is no node, NetworkXNoPath when the fringes run dry
shortest_path(G, source, target) ==
  IF source \notin Nodes(G) \/ target \notin Nodes(G)
  THEN [kind |-> "NodeNotFound", path |-> <<>>]
  ELSE LET r == bidirectional_pred_succ(G, source, target)
       IN  IF ~r.found THEN [kind |-> "NetworkXNoPath", path |-> <<>>]
           ELSE [kind |-> "ok",
                 path |-> FromSource(r.pred, r.w) \o ToTarget(r.succ, r.succ[r.w])]

(* ------------------------------------------------------- resolve_join *)

Keys(joins) == {joins[i].table : i \in 1..Len(joins)}

RECURSIVE JoinsKeyedByCurrent(_, _, _, _)
\* the dict keyed by the table of the iteration instead of the next one
JoinsKeyedByCurrent(G, path, index, joins) ==
  IF index > Len(path) THEN joins
  ELSE IF index < Len(path)
       THEN LET join_on == G.join_on[{path[index], path[index + 1]}]
            IN  JoinsKeyedByCurrent(G, path, index + 1,
                  IF path[index] \notin Keys(joins)
                  THEN Append(joins, [table |-> path[index], join_on |-> join_on])
                  ELSE joins)
       ELSE JoinsKeyedByCurrent(G, path, index + 1, joins)

RECURSIVE JoinsOfPath(_, _, _, _)
\* lines 155-163: the dict joins, in insertion order
JoinsOfPath(G, path, index, joins) ==
  IF index > Len(path) THEN joins
  ELSE IF index < Len(path)
       THEN LET join_on == G.join_on[{path[index], path[index + 1]}]
            IN  JoinsOfPath(G, path, index + 1,
                  IF path[index + 1] \notin Keys(joins)
                  THEN Append(joins, [table |-> path[index + 1], join_on |-> join_on])
                  ELSE joins)
       ELSE JoinsOfPath(G, path, index + 1, joins)

\* line 166: the dict as a list of tuples (table, *join_on)
JoinList(joins) ==
  [i \in 1..Len(joins) |-> <<joins[i].table, joins[i].join_on[1], joins[i].join_on[2]>>]

resolve_join(G, table_start, table_end) ==
  LET sp == shortest_path(G, table_start, table_end)
  IN  [start |-> table_start, end |-> table_end, kind |-> sp.kind, path |-> sp.path,
       joins |-> IF sp.kind = "ok" THEN JoinList(JoinsOfPath(G, sp.path, 1, <<>>))
                 ELSE <<>>]

(* ------------------------------------------------------ the program *)

NoCall == [start |-> None, end |-> None, kind |-> "none", path |-> <<>>, joins |-> <<>>]

RECURSIVE BoundedSeq(_, _)
BoundedSeq(S, n) ==
  IF n = 0 THEN {<<>>}
  ELSE LET shorter == BoundedSeq(S, n - 1)
       IN  shorter \cup {Append(s, x) : s \in {t \in shorter : Len(t) = n - 1}, x \in S}

\* a declaration: a ForeignKey column of table `owner`
Declarations == [owner : Names, fk : ForeignKeys]

\* table.foreign_keys in the order the loop of line 120 meets them
FksOf(decls, t) ==
  LET mine == SelectSeq(decls, LAMBDA d : d.owner = t)
  IN  [i \in 1..Len(mine) |-> mine[i].fk]

RECURSIVE Acyclic(_, _)
\* no dependency cycle among different tables: sorted_tables then needs no
\* cycle breaking
Acyclic(T, f) ==
  \/ T = {}
  \/ LET free == {t \in T : Deps(f, t) \cap T = {}}
     IN  free # {} /\ Acyclic(T \ free, f)

\* lines 17-49: the declared classes; any schema within the bounds
Init ==
  /\ tables \in {T \in SUBSET Names : Cardinality(T) <= MaxTables}
  /\ \E decls \in BoundedSeq(Declarations, MaxFks) :
       /\ \A i \in 1..Len(decls) : decls[i].owner \in tables /\ decls[i].fk.ref_table \in tables
       /\ fks = [t \in tables |-> FksOf(decls, t)]
  /\ Acyclic(tables, fks)
  /\ pc = "declared"
  /\ graph = EmptyGraph
  /\ call = NoCall

\* line 171: g = create_graph(Base)
CreateGraph ==
  /\ pc = "declared"
  /\ graph' = create_graph(tables, fks)
  /\ pc' = "built"
  /\ UNCHANGED <<tables, fks, call>>

\* a resolve_join that registers a start table the graph does not know
ResolveAddingNode ==
  /\ pc = "built"
  /\ \E table_start \in Names, table_end \in Names :
       /\ call' = resolve_join(graph, table_start, table_end)
       /\ graph' = add_node(graph, table_start)
  /\ UNCHANGED <<tables, fks, pc>>

\* line 172: joins = resolve_join(g, start, end)
Resolve ==
  /\ pc = "built"
  /\ \E table_start \in Names, table_end \in Names :
       call' = resolve_join(graph, table_start, table_end)
  /\ UNCHANGED <<tables, fks, pc, graph>>

Next == CreateGraph \/ Resolve

Spec == Init /\ [][Next]_vars

(* ------------------------------- resolve_join on a graph of any shape *)

\* the end points of an edge; add_edge(u, v) and add_edge(v, u) give the same
\* adjacency, so one order of each pair is enough
EdgeEnds == {e \in Names \X Names : Rank(e[1]) <= Rank(e[2])}

RECURSIVE GraphOf(_, _)
\* a graph as lines 113 and 126-129 build one, edge after edge
GraphOf(G, es) ==
  IF es = <<>> THEN G
  ELSE LET u == Head(es)[1]
           v == Head(es)[2]
       IN  GraphOf(add_edge(G, u, v, JoinOn(u, "author_id", v, IdColumn)), Tail(es))

\* resolve_join is handed a graph: any nodes, any edges within the bounds
InitGraph ==
  /\ tables = {}
  /\ fks = <<>>
  /\ pc = "built"
  /\ \E T \in SUBSET Names, es \in BoundedSeq(EdgeEnds, MaxEdges) :
       graph = GraphOf(add_nodes(EmptyGraph, sorted_tables(T, [t \in T |-> <<>>])), es)
  /\ call = NoCall

NextGraph == Resolve

SpecGraph == InitGraph /\ [][NextGraph]_vars

(* ------------------------------------------------------- the claims *)

RECURSIVE Reach(_, _)
\* the nodes joined to a node of S by a chain of edges
Reach(G, S) ==
  LET more == S \cup {n \in Nodes(G) : \E m \in S : HasEdge(G, m, n)}
  IN  IF more = S THEN S ELSE Reach(G, more)

RECURSIVE Distance(_, _, _)
\* the number of edges between the set S and a node that Reach finds from it
Distance(G, S, n) ==
  IF n \in S THEN 0
  ELSE 1 + Distance(G, S \cup {m \in Nodes(G) : \E k \in S : HasEdge(G, k, m)}, n)

Called == call.kind # "none"

\* the foreign keys of table t that point at table r, by position
FkIndexes(t, r) == {i \in 1..Len(fks[t]) : fks[t][i].ref_table = r}

\* the descriptor ((Ta, ca), (Tb, cb)) of a declared foreign key
Descriptor(t, fk) == <<<<t, fk.column>>, <<fk.ref_table, fk.ref_column>>>>

\* no two declared foreign keys join the same pair of tables
NoParallelFks ==
  \A t \in tables, r \in tables :
    /\ Cardinality(FkIndexes(t, r)) <= 1
    /\ (t # r /\ FkIndexes(t, r) # {}) => FkIndexes(r, t) = {}

\* C1: every foreign key Ta.ca -> Tb.cb of every table gives the built graph an
\* edge between Ta and Tb whose join_on is ((Ta, ca), (Tb, cb)); stated for
\* the schemas where no second foreign key of the same pair replaces it
C1_EveryFkHasItsEdge ==
  (pc = "built" /\ NoParallelFks) =>
    \A t \in tables : \A i \in 1..Len(fks[t]) :
      /\ HasEdge(graph, t, fks[t][i].ref_table)
      /\ graph.join_on[{t, fks[t][i].ref_table}] = Descriptor(t, fks[t][i])

C3_PlanFollowsPath ==
  call.kind = "ok" =>
    /\ Len(call.path) >= 1
    /\ call.path[1] = call.start
    /\ call.path[Len(call.path)] = call.end
    /\ \A i \in 1..(Len(call.path) - 1) : HasEdge(graph, call.path[i], call.path[i + 1])
    /\ Len(call.path) - 1 = Distance(graph, {call.start}, call.end)
    /\ Len(call.joins) = Len(call.path) - 1
    /\ \A i \in 1..Len(call.joins) : call.joins[i][1] = call.path[i + 1]
    /\ \A i, j \in 1..Len(call.joins) : i # j => call.joins[i][1] # call.joins[j][1]
    /\ \A i \in 1..Len(call.joins) : call.joins[i][1] # call.start
    /\ call.start # call.end =>
         /\ call.joins # <<>>
         /\ call.joins[Len(call.joins)][1] = call.end

\* a plan of three steps
C3_Witness == call.kind = "ok" /\ Len(call.joins) = 3

\* C4: between two nodes, NetworkXNoPath is raised exactly when they lie in
\* different connected components, and a plan is returned otherwise
C4_NoPathIffDisconnected ==
  (Called /\ call.start \in Nodes(graph) /\ call.end \in Nodes(graph)) =>
    /\ call.kind = "NetworkXNoPath" <=> call.end \notin Reach(graph, {call.start})
    /\ call.end \in Reach(graph, {call.start}) => call.kind = "ok"

\* no path between two nodes that both have edges
C4_Witness ==
  /\ call.kind = "NetworkXNoPath"
  /\ graph.adj[call.start] # <<>>
  /\ graph.adj[call.end] # <<>>

\* C5: a start or end table that is no node raises NodeNotFound, also when
\* both are the same absent table, and no join list is returned
C5_UnknownTable ==
  (Called /\ (call.start \notin Nodes(graph) \/ call.end \notin Nodes(graph))) =>
    /\ call.kind = "NodeNotFound"
    /\ call.joins = <<>>

\* the same absent table as start and end, on a graph that has nodes
C5_Witness ==
  /\ call.kind = "NodeNotFound"
  /\ call.start = call.end
  /\ Nodes(graph) # {}

\* C6: from a node to itself the join list is empty, with or without edges
\* at that node, a self-referencing one included
C6_SameTableEmptyPlan ==
  (Called /\ call.start = call.end /\ call.start \in Nodes(graph)) =>
    /\ call.kind = "ok"
    /\ call.joins = <<>>

\* a table with a self-referencing edge resolved to itself
C6_Witness ==
  /\ call.kind = "ok"
  /\ call.start = call.end
  /\ HasEdge(graph, call.start, call.start)

LibrarySchema ==
  /\ tables = {"authors", "books", "catalogs"}
  /\ fks["authors"] = <<>>
  /\ fks["catalogs"] = <<>>
  /\ Len(fks["books"]) = 2
  /\ Range(fks["books"]) =
       {[column |-> "author_id", ref_table |-> "authors", ref_column |-> "id"],
        [column |-> "catalog_id", ref_table |-> "catalogs", ref_column |-> "id"]}

\* C8: on the library schema, authors to catalogs is books on
\* books.author_id = authors.id, then catalogs on books.catalog_id = catalogs.id
C8_LibraryPlan ==
  (LibrarySchema /\ Called /\ call.start = "authors" /\ call.end = "catalogs") =>
    /\ call.kind = "ok"
    /\ call.joins = << <<"books", <<"books", "author_id">>, <<"authors", "id">>>>,
                       <<"catalogs", <<"books", "catalog_id">>, <<"catalogs", "id">>>> >>

C8_Witness ==
  LibrarySchema /\ call.kind = "ok" /\ call.start = "authors" /\ call.end = "catalogs"

\* C9: the two sides of the step for path tables t_i, t_{i+1} name exactly
\* t_i and t_{i+1}, whichever of them owns the foreign key
C9_StepNamesItsEdge ==
  (pc = "built" /\ tables # {} /\ call.kind = "ok") =>
    \A i \in 1..Len(call.joins) :
      /\ call.path[i] # call.path[i + 1]
      /\ {call.joins[i][2][1], call.joins[i][3][1]} = {call.path[i], call.path[i + 1]}

\* a plan whose first step introduces the owning table and whose second
\* step introduces the referenced one
C9_Witness ==
  /\ pc = "built"
  /\ tables # {}
  /\ call.kind = "ok"
  /\ Len(call.joins) = 2
  /\ call.joins[1][2][1] = call.joins[1][1]
  /\ call.joins[2][3][1] = call.joins[2][1]

\* the last foreign key of t that points at r, in the order of the loop
LastFk(t, r) == fks[t][CHOOSE i \in FkIndexes(t, r) : \A j \in FkIndexes(t, r) : j <= i]

\* C10: the edge of a pair of tables carries one join_on, that of the last
\* foreign key declared between the two, whatever other pairs declare
C10_LastFkOfPairKept ==
  pc = "built" =>
    \A t \in tables, r \in tables :
      FkIndexes(t, r) # {} =>
        /\ HasEdge(graph, t, r)
        /\ graph.join_on[{t, r}] = Descriptor(t, LastFk(t, r))

====
